---- MODULE Spec2Model ----
(***************************************************************************)
(* Model of the hierarchical authorization and coin-transfer engine of     *)
(* Game-Venture-backend.                                                   *)
(*                                                                         *)
(* Tables of the relational store are variables (company, wallet, ledger,  *)
(* payment, auditLog); the read-through cache of the store wrapper is the  *)
(* variable cache.  Every HTTP request is a slot of req whose pc walks     *)
(* through the awaits of its handler: two requests interleave exactly at   *)
(* the awaits.  A prisma.$transaction commits all its writes in one step   *)
(* or none of them.                                                        *)
(*                                                                         *)
(* Amounts are JSON numbers (the documented type of the request body);     *)
(* balances are integers.                                                  *)
(***************************************************************************)
EXTENDS Integers, Sequences, FiniteSets, TLC

\* ------------------------------------------------------------------ bounds
MaxReq == 2
MaxAmount == 2
\* requests issued in the authorization runs (SpecAuth)
AuthReq == 1
\* accounts of the forests the hierarchy walk is run on (SpecPolicy)
MaxNodes == 4
\* retryQuery calls of one run of the store wrapper (SpecWrapper)
MaxCalls == 2
\* cap of the circuit breaker's failure counter (SpecWrapper)
MaxFailures == 6

Reqs == 1..MaxReq
Amounts == (-1)..MaxAmount
\* 0 is the null parentId of a root account
NoParent == 0

\* ------------------------------------------------------------- Role Policy
Roles == {"ADMIN", "DISTRIBUTOR", "SUB_DISTRIBUTOR", "STORE", "PLAYER"}

roleHierarchy ==
  [r \in Roles |->
     CASE r = "ADMIN" -> 5
       [] r = "DISTRIBUTOR" -> 4
       [] r = "SUB_DISTRIBUTOR" -> 3
       [] r = "STORE" -> 2
       [] r = "PLAYER" -> 1]

assignMap ==
  [r \in Roles |->
     CASE r = "ADMIN" -> {"DISTRIBUTOR", "SUB_DISTRIBUTOR", "STORE", "PLAYER"}
       [] r = "DISTRIBUTOR" -> {"SUB_DISTRIBUTOR"}
       [] r = "SUB_DISTRIBUTOR" -> {"STORE"}
       [] r = "STORE" -> {"PLAYER"}
       [] r = "PLAYER" -> {}]

canAssignLower(senderRole, receiverRole) ==
  roleHierarchy[receiverRole] < roleHierarchy[senderRole]

canAssign(senderRole, receiverRole) ==
  receiverRole \in assignMap[senderRole]

\* roles the coin routes admit (requireRole on /assign-coin)
AssignCoinRoles == {"ADMIN", "DISTRIBUTOR", "SUB_DISTRIBUTOR", "STORE"}

VARIABLES
  company,    \* Company table: id -> [role, parentId, points, username]
  wallet,     \* Wallet table: companyId -> balance (one row per company)
  ledger,     \* Ledger table, in insertion order
  payment,    \* Payment table, in insertion order
  auditLog,   \* AuditLog table, in insertion order
  cache,      \* cached wallet findUnique results: companyId -> balance
  req,        \* the requests: position in the handler and its locals
  budget,     \* number of requests the clients may still issue
  preload,    \* amount the admin self-loaded before the first request
  breaker     \* the store wrapper's CircuitBreaker instance

vars == <<company, wallet, ledger, payment, auditLog, cache, req, budget, preload, breaker>>

\* ids a request may name: the rows of the table and one id that has no row
KnownIds == DOMAIN company
AnyIds == KnownIds \cup {Cardinality(KnownIds) + 1}

Empty == [x \in {} |-> 0]

\* --------------------------------------------------------- Hierarchy Store
Children(c, id) == {x \in DOMAIN c : c[x].parentId = id}

RECURSIVE isInMyHierarchyIn(_, _, _)
isInMyHierarchyIn(c, myId, targetId) ==
  IF myId = targetId THEN TRUE
  ELSE \E ch \in Children(c, myId) : isInMyHierarchyIn(c, ch, targetId)

isDirectChild(myId, targetId) ==
  myId = targetId \/ targetId \in Children(company, myId)

isInMyHierarchyAny(myId, targetId) == TRUE

isInMyHierarchy(myId, targetId) == isInMyHierarchyIn(company, myId, targetId)

\* nested calls of isInMyHierarchy(myId, targetId), when every child is visited
RECURSIVE isInMyHierarchyDepth(_, _, _)
isInMyHierarchyDepth(c, myId, targetId) ==
  IF myId = targetId THEN 1
  ELSE LET below == {isInMyHierarchyDepth(c, ch, targetId) : ch \in Children(c, myId)}
       IN 1 + (IF below = {} THEN 0 ELSE CHOOSE d \in below : \A e \in below : e <= d)

\* the account trees the requests run against
Row(role, parent, name) ==
  [role |-> role, parentId |-> parent, points |-> 0, username |-> name,
   remarks |-> "none", isActive |-> TRUE, status |-> "ACTIVE", deletedAt |-> FALSE]

SmallTree ==
  (1 :> Row("ADMIN", NoParent, "u1")) @@
  (2 :> Row("DISTRIBUTOR", 1, "u2")) @@
  (3 :> Row("SUB_DISTRIBUTOR", 2, "u3"))

\* 5 is a second distributor: 3 is one level below it but not under it;
\* 4 is under 2 but two levels below it
RichTree ==
  (1 :> Row("ADMIN", NoParent, "u1")) @@
  (2 :> Row("DISTRIBUTOR", 1, "u2")) @@
  (3 :> Row("SUB_DISTRIBUTOR", 2, "u3")) @@
  (4 :> Row("STORE", 3, "u4")) @@
  (5 :> Row("DISTRIBUTOR", 1, "u5")) @@
  (6 :> Row("PLAYER", 4, "u6"))

IdleReq ==
  [pc |-> "idle", kind |-> "none", actor |-> 0, target |-> 0, amount |-> 0,
   role |-> "none", senderRole |-> "none", username |-> "none",
   body |-> "none", value |-> 0, inTree |-> FALSE,
   sBal |-> 0, tBal |-> 0, sDb |-> 0, tDb |-> 0, status |-> "none",
   attempt |-> 0, execs |-> 0, lastErr |-> "none", skip |-> FALSE]

\* new CircuitBreaker(): failures, state; elapsed stands for
\* Date.now() - lastFailureTime > timeout; streak is the number of transient
\* failures of the wrapped query since its last success
ClosedBreaker ==
  [failures |-> 0, state |-> "CLOSED", elapsed |-> FALSE, streak |-> 0]

\* the tables after loadCoins(1, p) committed on a store that holds only the
\* accounts of tree (p = 0: nothing was loaded)
InitCompany(tree, p) == [tree EXCEPT ![1].points = p]

InitWallet(p) == IF p = 0 THEN Empty ELSE (1 :> p)

InitLedger(p) ==
  IF p = 0 THEN << >>
  ELSE << [companyId |-> 1, type |-> "RECHARGE", amount |-> p, balance |-> p] >>

\* the tx.payment.create row of loadCoins
PaymentRow(a, amt) ==
  [companyId |-> a, amount |-> amt, merchant |-> "ADMIN", status |-> "PAID"]

InitPayment(p) == IF p = 0 THEN << >> ELSE << PaymentRow(1, p) >>

InitAuditLog(p) ==
  IF p = 0 THEN << >>
  ELSE << [actorId |-> 1, action |-> "LOAD_COINS_SELF", targetId |-> 1] >>

InitStore(tree, p) ==
  /\ preload = p
  /\ company = InitCompany(tree, p)
  /\ wallet = InitWallet(p)
  /\ ledger = InitLedger(p)
  /\ payment = InitPayment(p)
  /\ auditLog = InitAuditLog(p)
  /\ cache = Empty
  /\ req = [r \in Reqs |-> IdleReq]
  /\ breaker = ClosedBreaker

Init == (\E p \in 0..MaxAmount : InitStore(SmallTree, p)) /\ budget = MaxReq

InitCreate == InitStore(RichTree, 0) /\ budget = MaxReq

\* ------------------------------------------------------------ store wrapper
\* db.findUnique("wallet", {companyId}): a truthy cached value is returned
\* without a query; a miss queries the table and caches the row.
CacheHit(id) == id \in DOMAIN cache

\* invalidateCache(["wallet:*"]) after db.create("wallet")
Invalidated == Empty

\* a client issues its request in the next free slot while requests remain
CanIssue(r) ==
  /\ req[r].pc = "idle"
  /\ budget > 0
  /\ \A q \in Reqs : q < r => req[q].pc # "idle"

Finish(r, st) ==
  [req EXCEPT ![r].pc = "done", ![r].status = st, ![r].sBal = 0, ![r].tBal = 0]

\* ------------------------------------------------------ assignCoin (transfer)
\* requireRole + body check + company lookups + hierarchy / canAssign checks
AssignCoinStart(r, s, t, amt) ==
  /\ CanIssue(r)
  /\ s \in DOMAIN company
  /\ budget' = budget - 1
  /\ LET base == [req[r] EXCEPT !.kind = "transfer", !.actor = s,
                                 !.target = t, !.amount = amt]
         rej(st) == [req EXCEPT ![r] = [base EXCEPT !.pc = "done", !.status = st]]
     IN
     req' =
       IF company[s].role \notin AssignCoinRoles THEN rej("forbidden_role")
       ELSE IF amt = 0 THEN rej("bad_request")
       ELSE IF t \notin DOMAIN company THEN rej("not_found")
       ELSE IF company[s].role # "ADMIN" /\ ~isInMyHierarchy(s, t)
         THEN rej("forbidden")
       ELSE IF company[s].role # "ADMIN"
               /\ ~canAssign(company[s].role, company[t].role)
         THEN rej("forbidden")
       ELSE [req EXCEPT ![r] = [base EXCEPT !.pc = "sw"]]
  /\ UNCHANGED <<company, wallet, ledger, payment, auditLog, cache, preload, breaker>>

\* db.findUnique("wallet", sender)
FindSenderWallet(r) ==
  /\ req[r].pc = "sw"
  /\ LET s == req[r].actor IN
     IF CacheHit(s)
       THEN /\ req' = [req EXCEPT ![r].pc = "tw", ![r].sBal = cache[s]]
            /\ UNCHANGED cache
     ELSE IF s \in DOMAIN wallet
       THEN /\ req' = [req EXCEPT ![r].pc = "tw", ![r].sBal = wallet[s]]
            /\ cache' = [x \in DOMAIN cache \cup {s} |->
                           IF x = s THEN wallet[s] ELSE cache[x]]
     ELSE /\ req' = [req EXCEPT ![r].pc = "swc"]
          /\ UNCHANGED cache
  /\ UNCHANGED <<company, wallet, ledger, payment, auditLog, budget, preload, breaker>>

\* db.create("wallet", sender): the unique index on companyId rejects a
\* second row, the handler's catch answers 500
CreateSenderWallet(r) ==
  /\ req[r].pc = "swc"
  /\ LET s == req[r].actor IN
     IF s \in DOMAIN wallet
       THEN /\ req' = [Finish(r, "error") EXCEPT ![r].lastErr = "P2002"]
            /\ UNCHANGED <<wallet, cache>>
       ELSE /\ wallet' = wallet @@ (s :> 0)
            /\ cache' = Invalidated
            /\ req' = [req EXCEPT ![r].pc = "tw", ![r].sBal = 0]
  /\ UNCHANGED <<company, ledger, payment, auditLog, budget, preload, breaker>>

\* db.findUnique("wallet", target)
FindTargetWallet(r) ==
  /\ req[r].pc = "tw"
  /\ LET t == req[r].target IN
     IF CacheHit(t)
       THEN /\ req' = [req EXCEPT ![r].pc = "chk", ![r].tBal = cache[t]]
            /\ UNCHANGED cache
     ELSE IF t \in DOMAIN wallet
       THEN /\ req' = [req EXCEPT ![r].pc = "chk", ![r].tBal = wallet[t]]
            /\ cache' = [x \in DOMAIN cache \cup {t} |->
                           IF x = t THEN wallet[t] ELSE cache[x]]
     ELSE /\ req' = [req EXCEPT ![r].pc = "twc"]
          /\ UNCHANGED cache
  /\ UNCHANGED <<company, wallet, ledger, payment, auditLog, budget, preload, breaker>>

CreateTargetWallet(r) ==
  /\ req[r].pc = "twc"
  /\ LET t == req[r].target IN
     IF t \in DOMAIN wallet
       THEN /\ req' = [Finish(r, "error") EXCEPT ![r].lastErr = "P2002"]
            /\ UNCHANGED <<wallet, cache>>
       ELSE /\ wallet' = wallet @@ (t :> 0)
            /\ cache' = Invalidated
            /\ req' = [req EXCEPT ![r].pc = "chk", ![r].tBal = 0]
  /\ UNCHANGED <<company, ledger, payment, auditLog, budget, preload, breaker>>

\* if (senderWallet.balance < amount) return 400
Insufficient(bal, amt) == bal < amt

CheckBalance(r) ==
  /\ req[r].pc = "chk"
  /\ req' = IF Insufficient(req[r].sBal, req[r].amount)
              THEN Finish(r, "insufficient")
              ELSE [req EXCEPT ![r].pc = "tx"]
  /\ UNCHANGED <<company, wallet, ledger, payment, auditLog, cache, budget, preload, breaker>>

\* the wallet rows after the two tx.wallet.update calls, in their order
TransferWallets(w, s, t, newS, newT) ==
  [[w EXCEPT ![s] = newS] EXCEPT ![t] = newT]

\* the company rows after points decrement / increment
TransferPoints(c, s, t, amt, newS, newT) ==
  [[c EXCEPT ![s].points = @ - amt] EXCEPT ![t].points = @ + amt]

TransferRowsWithdrawOnly(s, t, amt, newS, newT) ==
  << [companyId |-> s, type |-> "WITHDRAW", amount |-> amt, balance |-> newS] >>

\* the two tx.ledger.create rows
TransferRows(s, t, amt, newS, newT) ==
  << [companyId |-> s, type |-> "WITHDRAW", amount |-> amt, balance |-> newS],
     [companyId |-> t, type |-> "RECHARGE", amount |-> amt, balance |-> newT] >>

\* prisma.$transaction of assignCoin commits
CommitTransfer(r) ==
  /\ req[r].pc = "tx"
  /\ LET s == req[r].actor
         t == req[r].target
         amt == req[r].amount
         newSenderBal == req[r].sBal - amt
         newTargetBal == req[r].tBal + amt
     IN
     /\ wallet' = TransferWallets(wallet, s, t, newSenderBal, newTargetBal)
     /\ company' = TransferPoints(company, s, t, amt, newSenderBal, newTargetBal)
     /\ ledger' = ledger \o TransferRows(s, t, amt, newSenderBal, newTargetBal)
     /\ req' = [Finish(r, "ok") EXCEPT ![r].sDb = wallet[s], ![r].tDb = wallet[t]]
  /\ UNCHANGED <<payment, auditLog, cache, budget, preload, breaker>>

\* ------------------------------------------------------ loadCoins (loadSelf)
\* requireRole("ADMIN") + body check + amount check + admin lookup
LoadCoinsStart(r, a, amt) ==
  /\ CanIssue(r)
  /\ a \in DOMAIN company
  /\ budget' = budget - 1
  /\ LET base == [req[r] EXCEPT !.kind = "load", !.actor = a,
                                 !.target = a, !.amount = amt]
         rej(st) == [req EXCEPT ![r] = [base EXCEPT !.pc = "done", !.status = st]]
     IN
     req' =
       IF company[a].role # "ADMIN" THEN rej("forbidden_role")
       ELSE IF amt = 0 THEN rej("bad_request")
       ELSE IF amt <= 0 THEN rej("invalid_amount")
       ELSE [req EXCEPT ![r] = [base EXCEPT !.pc = "lw"]]
  /\ UNCHANGED <<company, wallet, ledger, payment, auditLog, cache, preload, breaker>>

\* prisma.wallet.findUnique: a direct read of the table
FindAdminWallet(r) ==
  /\ req[r].pc = "lw"
  /\ LET a == req[r].actor IN
     req' = IF a \in DOMAIN wallet
              THEN [req EXCEPT ![r].pc = "ltx", ![r].sBal = wallet[a]]
              ELSE [req EXCEPT ![r].pc = "lwc"]
  /\ UNCHANGED <<company, wallet, ledger, payment, auditLog, cache, budget, preload, breaker>>

\* prisma.wallet.create: no cache invalidation on this path
CreateAdminWallet(r) ==
  /\ req[r].pc = "lwc"
  /\ LET a == req[r].actor IN
     IF a \in DOMAIN wallet
       THEN /\ req' = [Finish(r, "error") EXCEPT ![r].lastErr = "P2002"]
            /\ UNCHANGED wallet
       ELSE /\ wallet' = wallet @@ (a :> 0)
            /\ req' = [req EXCEPT ![r].pc = "ltx", ![r].sBal = 0]
  /\ UNCHANGED <<company, ledger, payment, auditLog, cache, budget, preload, breaker>>

LoadPointsAmount(c, a, amt, newBalance) == [c EXCEPT ![a].points = amt]

\* tx.company.update: points: Number(newBalance)
LoadPoints(c, a, amt, newBalance) == [c EXCEPT ![a].points = newBalance]

\* prisma.$transaction of loadCoins commits
CommitLoad(r) ==
  /\ req[r].pc = "ltx"
  /\ LET a == req[r].actor
         amt == req[r].amount
         newBalance == req[r].sBal + amt
     IN
     /\ payment' = Append(payment, PaymentRow(a, amt))
     /\ ledger' = Append(ledger, [companyId |-> a, type |-> "RECHARGE",
                                  amount |-> amt, balance |-> newBalance])
     /\ wallet' = [wallet EXCEPT ![a] = newBalance]
     /\ company' = LoadPoints(company, a, amt, newBalance)
     /\ auditLog' = Append(auditLog, [actorId |-> a, action |-> "LOAD_COINS_SELF",
                                      targetId |-> a])
     /\ req' = [Finish(r, "ok") EXCEPT ![r].sDb = wallet[a]]
  /\ UNCHANGED <<cache, budget, preload, breaker>>

\* ------------------------------------------------------------- environment
\* a store call of an accepted request throws: an open transaction rolls
\* back, the handler's catch answers 500 (assignCoin) or 400 (load route)
StoreError(r) ==
  /\ req[r].pc \notin {"idle", "done"}
  /\ req' = Finish(r, "error")
  /\ UNCHANGED <<company, wallet, ledger, payment, auditLog, cache, budget, preload, breaker>>

\* a cached entry reaches its TTL, or an unrelated write through the
\* wrapper clears the in-process cache
CacheExpire(id) ==
  /\ id \in DOMAIN cache
  /\ cache' = [x \in DOMAIN cache \ {id} |-> cache[x]]
  /\ UNCHANGED <<company, wallet, ledger, payment, auditLog, req, budget, preload, breaker>>

\* the tables after the admin, on the tables db, ran assignCoin(t, amt) alone
\* for a target that had no wallet
Paid(db, t, amt) ==
  LET w == db.wallet @@ (t :> 0)
      newS == w[1] - amt
      newT == w[t] + amt
  IN [company |-> TransferPoints(db.company, 1, t, amt, newS, newT),
      wallet |-> TransferWallets(w, 1, t, newS, newT),
      ledger |-> db.ledger \o TransferRows(1, t, amt, newS, newT)]

Loaded(tree, p) ==
  [company |-> InitCompany(tree, p), wallet |-> InitWallet(p),
   ledger |-> InitLedger(p)]

\* the admin loaded 5 * MaxAmount and paid MaxAmount to each of 2, 3, 4, 5,
\* one request after the other
FundedStore ==
  Paid(Paid(Paid(Paid(Loaded(RichTree, 5 * MaxAmount), 2, MaxAmount),
                 3, MaxAmount), 4, MaxAmount), 5, MaxAmount)

InitFunded ==
  /\ preload = 5 * MaxAmount
  /\ company = FundedStore.company
  /\ wallet = FundedStore.wallet
  /\ ledger = FundedStore.ledger
  /\ payment = InitPayment(5 * MaxAmount)
  /\ auditLog = InitAuditLog(5 * MaxAmount)
  /\ cache = Empty
  /\ req = [r \in Reqs |-> IdleReq]
  /\ breaker = ClosedBreaker

InitAuth == (InitStore(RichTree, 0) \/ InitFunded) /\ budget = AuthReq

Next ==
  \/ \E r \in Reqs :
       /\ CanIssue(r)
       /\ \E s \in KnownIds, t \in AnyIds, amt \in Amounts :
            AssignCoinStart(r, s, t, amt)
  \/ \E r \in Reqs : FindSenderWallet(r)
  \/ \E r \in Reqs : CreateSenderWallet(r)
  \/ \E r \in Reqs : FindTargetWallet(r)
  \/ \E r \in Reqs : CreateTargetWallet(r)
  \/ \E r \in Reqs : CheckBalance(r)
  \/ \E r \in Reqs : CommitTransfer(r)
  \/ \E r \in Reqs :
       /\ CanIssue(r)
       /\ \E a \in KnownIds, amt \in Amounts : LoadCoinsStart(r, a, amt)
  \/ \E r \in Reqs : FindAdminWallet(r)
  \/ \E r \in Reqs : CreateAdminWallet(r)
  \/ \E r \in Reqs : CommitLoad(r)
  \/ \E r \in Reqs : StoreError(r)
  \/ \E id \in KnownIds : CacheExpire(id)

Spec == Init /\ [][Next]_vars

SpecAuth == InitAuth /\ [][Next]_vars

\* sequential executions: a request is issued only when no other is in flight
AllQuiet == \A q \in Reqs : req[q].pc \in {"idle", "done"}

InitSeq == (InitStore(RichTree, 0) \/ InitFunded) /\ budget = MaxReq

NextSeq ==
  \/ \E r \in Reqs :
       /\ CanIssue(r) /\ AllQuiet
       /\ \E s \in KnownIds, t \in AnyIds, amt \in Amounts :
            AssignCoinStart(r, s, t, amt)
  \/ \E r \in Reqs : FindSenderWallet(r)
  \/ \E r \in Reqs : CreateSenderWallet(r)
  \/ \E r \in Reqs : FindTargetWallet(r)
  \/ \E r \in Reqs : CreateTargetWallet(r)
  \/ \E r \in Reqs : CheckBalance(r)
  \/ \E r \in Reqs : CommitTransfer(r)
  \/ \E r \in Reqs :
       /\ CanIssue(r) /\ AllQuiet
       /\ \E a \in KnownIds, amt \in Amounts : LoadCoinsStart(r, a, amt)
  \/ \E r \in Reqs : FindAdminWallet(r)
  \/ \E r \in Reqs : CreateAdminWallet(r)
  \/ \E r \in Reqs : CommitLoad(r)
  \/ \E r \in Reqs : StoreError(r)
  \/ \E id \in KnownIds : CacheExpire(id)

SpecSeq == InitSeq /\ [][NextSeq]_vars

\* two assignCoin requests, in any interleaving
InitPair == (InitStore(RichTree, 0) \/ InitFunded) /\ budget = 2

NextPair ==
  \/ \E r \in Reqs :
       /\ CanIssue(r)
       /\ \E s \in KnownIds, t \in AnyIds, amt \in Amounts :
            AssignCoinStart(r, s, t, amt)
  \/ \E r \in Reqs : FindSenderWallet(r)
  \/ \E r \in Reqs : CreateSenderWallet(r)
  \/ \E r \in Reqs : FindTargetWallet(r)
  \/ \E r \in Reqs : CreateTargetWallet(r)
  \/ \E r \in Reqs : CheckBalance(r)
  \/ \E r \in Reqs : CommitTransfer(r)
  \/ \E r \in Reqs : StoreError(r)
  \/ \E id \in KnownIds : CacheExpire(id)

SpecPair == InitPair /\ [][NextPair]_vars

\* ------------------------------------------------- createUser (createAccount)
\* roles the /create route admits (requireRole)
CreateRoles == {"ADMIN", "DISTRIBUTOR", "SUB_DISTRIBUTOR", "STORE"}

Usernames == {"u2", "u7", "u8"}

UsernameTaken(name) == \E x \in DOMAIN company : company[x].username = name

\* controllers/company/company.controller.ts, the handler the router mounts:
\* level check, then canAssign, then the duplicate lookup
CreateUserStart(r, creator, role, name) ==
  /\ CanIssue(r)
  /\ creator \in DOMAIN company
  /\ budget' = budget - 1
  /\ LET base == [req[r] EXCEPT !.kind = "create", !.actor = creator,
                                 !.role = role, !.username = name]
         rej(st) == [req EXCEPT ![r] = [base EXCEPT !.pc = "done", !.status = st]]
         creatorLevel == roleHierarchy[company[creator].role]
         newUserLevel == roleHierarchy[role]
     IN
     req' =
       IF company[creator].role \notin CreateRoles THEN rej("forbidden_role")
       ELSE IF newUserLevel >= creatorLevel THEN rej("forbidden")
       ELSE IF ~canAssign(company[creator].role, role) THEN rej("forbidden")
       ELSE IF UsernameTaken(name) THEN rej("conflict")
       ELSE [req EXCEPT ![r] = [base EXCEPT !.pc = "ins"]]
  /\ UNCHANGED <<company, wallet, ledger, payment, auditLog, cache, preload, breaker>>

\* controllers/company.controller.ts, the older handler: level check only
LegacyCreateUserStart(r, creator, role, name) ==
  /\ CanIssue(r)
  /\ creator \in DOMAIN company
  /\ budget' = budget - 1
  /\ LET base == [req[r] EXCEPT !.kind = "create_legacy", !.actor = creator,
                                 !.role = role, !.username = name]
         rej(st) == [req EXCEPT ![r] = [base EXCEPT !.pc = "done", !.status = st]]
         creatorLevel == roleHierarchy[company[creator].role]
         newUserLevel == roleHierarchy[role]
     IN
     req' =
       IF company[creator].role \notin CreateRoles THEN rej("forbidden_role")
       ELSE IF newUserLevel >= creatorLevel THEN rej("forbidden")
       ELSE IF UsernameTaken(name) THEN rej("conflict")
       ELSE [req EXCEPT ![r] = [base EXCEPT !.pc = "ins"]]
  /\ UNCHANGED <<company, wallet, ledger, payment, auditLog, cache, preload, breaker>>

\* db.create("company"): the unique index on username rejects a duplicate
\* that appeared since the lookup, the handler's catch answers 500
CreateUserInsert(r) ==
  /\ req[r].pc = "ins"
  /\ IF UsernameTaken(req[r].username)
       THEN /\ req' = [Finish(r, "error") EXCEPT ![r].lastErr = "P2002"]
            /\ UNCHANGED company
       ELSE LET id == Cardinality(DOMAIN company) + 1 IN
            /\ company' = company @@
                 (id :> Row(req[r].role, req[r].actor, req[r].username))
            /\ req' = [Finish(r, "ok") EXCEPT ![r].target = id]
  /\ UNCHANGED <<wallet, ledger, payment, auditLog, cache, budget, preload, breaker>>

NextCreate ==
  \/ \E r \in Reqs :
       /\ CanIssue(r)
       /\ \E c \in KnownIds, role \in Roles, name \in Usernames :
            CreateUserStart(r, c, role, name)
  \/ \E r \in Reqs :
       /\ CanIssue(r)
       /\ \E c \in KnownIds, role \in Roles, name \in Usernames :
            LegacyCreateUserStart(r, c, role, name)
  \/ \E r \in Reqs : CreateUserInsert(r)
  \/ \E r \in Reqs : StoreError(r)

SpecCreate == InitCreate /\ [][NextCreate]_vars

\* ------------------------------------------- account management (PATCH routes)
\* x lies in the subtree of root: root is met on the parent chain of x within
\* as many steps as there are accounts
RECURSIVE InSubtreeN(_, _, _)
InSubtreeN(root, x, n) ==
  IF x = root THEN TRUE
  ELSE IF n = 0 \/ x \notin DOMAIN company THEN FALSE
  ELSE IF company[x].parentId = NoParent THEN FALSE
  ELSE InSubtreeN(root, company[x].parentId, n - 1)

InSubtree(root, x) == InSubtreeN(root, x, Cardinality(DOMAIN company))

\* two ADMIN roots; 5 is a sibling of 3, and 4 lies under 3
ManageTree ==
  (1 :> Row("ADMIN", NoParent, "u1")) @@
  (2 :> Row("ADMIN", NoParent, "u2")) @@
  (3 :> Row("DISTRIBUTOR", 1, "u3")) @@
  (4 :> Row("SUB_DISTRIBUTOR", 3, "u4")) @@
  (5 :> Row("DISTRIBUTOR", 1, "u5"))

InitManage == InitStore(ManageTree, 0) /\ budget = AuthReq

WalkAny(c, myId, targetId, path) == {"true"}

\* isInMyHierarchy on a store whose parent pointers may form a cycle: the
\* answers the walk can give for some order of the child lists; "hang" is the
\* recursion that meets an account again and never returns
RECURSIVE Walk(_, _, _, _)
Walk(c, myId, targetId, path) ==
  IF myId = targetId THEN {"true"}
  ELSE IF myId \in path THEN {"hang"}
  ELSE LET kids == Children(c, myId)
           out(k) == Walk(c, k, targetId, path \cup {myId})
       IN (IF \E k \in kids : "true" \in out(k) THEN {"true"} ELSE {})
          \cup (IF \E k \in kids : "hang" \in out(k) THEN {"hang"} ELSE {})
          \cup (IF \A k \in kids : "false" \in out(k) THEN {"false"} ELSE {})

\* the request bodies: data: safeUpdates passes every field to the store
BodyFields == {"remarks", "points", "parentId", "role"}

BodyValues(field) ==
  CASE field = "remarks" -> {0}
    [] field = "points" -> {1}
    [] field = "parentId" -> KnownIds
    [] field = "role" -> {"ADMIN"}

Patch(row, field, v) ==
  CASE field = "remarks" -> [row EXCEPT !.remarks = "edited"]
    [] field = "points" -> [row EXCEPT !.points = v]
    [] field = "parentId" -> [row EXCEPT !.parentId = v]
    [] field = "role" -> [row EXCEPT !.role = v]

\* if (target.role === "ADMIN") return 403
IsAdminNever(row) == FALSE

IsAdmin(row) == row.role = "ADMIN"

\* requireCreatorOfParam("id"), given the answer of its isInMyDownline walk
CreatorOfParam(actor, w) == IsAdmin(company[actor]) \/ w = "true"

ManageBase(r, kind, actor, id, field, v) ==
  [req[r] EXCEPT !.kind = kind, !.actor = actor, !.target = id,
                 !.body = field, !.value = v,
                 !.role = IF id \in DOMAIN company THEN company[id].role ELSE "none",
                 !.senderRole = company[actor].role,
                 !.inTree = InSubtree(actor, id)]

\* PATCH /:id of controllers/company/company.controller.ts: the self check
\* answers 403 and falls through
UpdateUserStart(r, actor, id, field, v) ==
  /\ CanIssue(r)
  /\ actor \in DOMAIN company
  /\ budget' = budget - 1
  /\ \E w \in Walk(company, actor, id, {}) :
       LET base == ManageBase(r, "update", actor, id, field, v)
           rej(st) == [req EXCEPT ![r] = [base EXCEPT !.pc = "done", !.status = st]]
           sent == IF id = actor THEN "forbidden" ELSE "none"
       IN
       req' =
         IF ~IsAdmin(company[actor]) /\ w = "hang"
           THEN [req EXCEPT ![r] = [base EXCEPT !.pc = "hung"]]
         ELSE IF ~CreatorOfParam(actor, w) THEN rej("forbidden")
         ELSE IF id \notin DOMAIN company THEN rej("not_found")
         ELSE IF ~canAssign(company[actor].role, company[id].role)
           THEN rej("forbidden")
         ELSE IF w = "hang" THEN [req EXCEPT ![r] = [base EXCEPT !.pc = "hung"]]
         ELSE IF ~(w = "true" \/ IsAdmin(company[actor])) THEN rej("forbidden")
         ELSE [req EXCEPT ![r] = [base EXCEPT !.pc = "upd", !.status = sent]]
  /\ UNCHANGED <<company, wallet, ledger, payment, auditLog, cache, preload, breaker>>

\* PATCH /:id of controllers/company.controller.ts: no canAssign check
LegacyUpdateUserStart(r, actor, id, field, v) ==
  /\ CanIssue(r)
  /\ actor \in DOMAIN company
  /\ budget' = budget - 1
  /\ \E w \in Walk(company, actor, id, {}) :
       LET base == ManageBase(r, "update_legacy", actor, id, field, v)
           rej(st) == [req EXCEPT ![r] = [base EXCEPT !.pc = "done", !.status = st]]
           sent == IF id = actor THEN "forbidden" ELSE "none"
       IN
       req' =
         IF ~IsAdmin(company[actor]) /\ w = "hang"
           THEN [req EXCEPT ![r] = [base EXCEPT !.pc = "hung"]]
         ELSE IF ~CreatorOfParam(actor, w) THEN rej("forbidden")
         ELSE IF id \notin DOMAIN company THEN rej("not_found")
         ELSE IF w = "hang" THEN [req EXCEPT ![r] = [base EXCEPT !.pc = "hung"]]
         ELSE IF ~(w = "true" \/ IsAdmin(company[actor])) THEN rej("forbidden")
         ELSE [req EXCEPT ![r] = [base EXCEPT !.pc = "upd", !.status = sent]]
  /\ UNCHANGED <<company, wallet, ledger, payment, auditLog, cache, preload, breaker>>

\* PATCH /profile/update: the target is the caller
UpdateUserProfileStart(r, actor, field, v) ==
  /\ CanIssue(r)
  /\ actor \in DOMAIN company
  /\ budget' = budget - 1
  /\ req' = [req EXCEPT ![r] =
               [ManageBase(r, "profile", actor, actor, field, v) EXCEPT !.pc = "upd"]]
  /\ UNCHANGED <<company, wallet, ledger, payment, auditLog, cache, preload, breaker>>

\* db.update("company", {where: {id}, data: safeUpdates}); a handler that
\* already answered keeps its first answer
UpdateWrite(r) ==
  /\ req[r].pc = "upd"
  /\ company' = [company EXCEPT ![req[r].target] =
                   Patch(@, req[r].body, req[r].value)]
  /\ req' = [req EXCEPT ![r].pc = "done",
                        ![r].status = IF @ = "none" THEN "ok" ELSE @]
  /\ UNCHANGED <<wallet, ledger, payment, auditLog, cache, budget, preload, breaker>>

Statuses == {"ACTIVE", "INACTIVE"}

\* PATCH /:id/toggle
ToggleUserStatusStart(r, actor, id, status) ==
  /\ CanIssue(r)
  /\ actor \in DOMAIN company
  /\ budget' = budget - 1
  /\ \E w \in Walk(company, actor, id, {}) :
       LET base == ManageBase(r, "toggle", actor, id, status, 0)
           rej(st) == [req EXCEPT ![r] = [base EXCEPT !.pc = "done", !.status = st]]
       IN
       req' =
         IF ~IsAdmin(company[actor]) /\ w = "hang"
           THEN [req EXCEPT ![r] = [base EXCEPT !.pc = "hung"]]
         ELSE IF ~CreatorOfParam(actor, w) THEN rej("forbidden")
         ELSE IF id \notin DOMAIN company THEN rej("not_found")
         ELSE IF IsAdmin(company[id]) THEN rej("forbidden")
         ELSE IF w = "hang" THEN [req EXCEPT ![r] = [base EXCEPT !.pc = "hung"]]
         ELSE IF ~(w = "true" \/ IsAdmin(company[actor])) THEN rej("forbidden")
         ELSE [req EXCEPT ![r] = [base EXCEPT !.pc = "tog"]]
  /\ UNCHANGED <<company, wallet, ledger, payment, auditLog, cache, preload, breaker>>

\* db.update: isActive and status
ToggleWrite(r) ==
  /\ req[r].pc = "tog"
  /\ company' = [company EXCEPT ![req[r].target] =
                   [@ EXCEPT !.isActive = (req[r].body = "ACTIVE"),
                             !.status = req[r].body]]
  /\ req' = Finish(r, "ok")
  /\ UNCHANGED <<wallet, ledger, payment, auditLog, cache, budget, preload, breaker>>

\* DELETE /:id behind requireRole
DeletedUserStart(r, actor, id) ==
  /\ CanIssue(r)
  /\ actor \in DOMAIN company
  /\ budget' = budget - 1
  /\ \E w \in Walk(company, actor, id, {}) :
       LET base == ManageBase(r, "delete", actor, id, "none", 0)
           rej(st) == [req EXCEPT ![r] = [base EXCEPT !.pc = "done", !.status = st]]
       IN
       req' =
         IF company[actor].role \notin CreateRoles THEN rej("forbidden_role")
         ELSE IF id \notin DOMAIN company THEN rej("not_found")
         ELSE IF IsAdmin(company[id]) THEN rej("forbidden")
         ELSE IF IsAdmin(company[actor])
           THEN [req EXCEPT ![r] = [base EXCEPT !.pc = "del"]]
         ELSE IF w = "hang" THEN [req EXCEPT ![r] = [base EXCEPT !.pc = "hung"]]
         ELSE IF w # "true" THEN rej("forbidden")
         ELSE [req EXCEPT ![r] = [base EXCEPT !.pc = "del"]]
  /\ UNCHANGED <<company, wallet, ledger, payment, auditLog, cache, preload, breaker>>

\* db.update: deletedAt and status DELETED
DeleteWrite(r) ==
  /\ req[r].pc = "del"
  /\ company' = [company EXCEPT ![req[r].target] =
                   [@ EXCEPT !.deletedAt = TRUE, !.status = "DELETED"]]
  /\ req' = Finish(r, "ok")
  /\ UNCHANGED <<wallet, ledger, payment, auditLog, cache, budget, preload, breaker>>

\* usernames a POST /api/coins body may name: those of the accounts and one
\* that no account has
CoinNames == {company[x].username : x \in KnownIds} \cup {"u9"}

AccountNamed(name) == CHOOSE x \in DOMAIN company : company[x].username = name

\* POST /api/coins behind requireAdmin, which admits every authenticated caller
GenerateCoinStart(r, actor, name, amt) ==
  /\ CanIssue(r)
  /\ actor \in DOMAIN company
  /\ budget' = budget - 1
  /\ LET base == [req[r] EXCEPT !.kind = "coin", !.actor = actor,
                                 !.username = name, !.amount = amt]
         rej(st) == [req EXCEPT ![r] = [base EXCEPT !.pc = "done", !.status = st]]
     IN
     req' =
       IF amt <= 0 THEN rej("bad_request")
       ELSE IF ~UsernameTaken(name) THEN rej("not_found")
       ELSE [req EXCEPT ![r] =
               [base EXCEPT !.pc = "coin", !.target = AccountNamed(name),
                            !.sBal = company[AccountNamed(name)].points]]
  /\ UNCHANGED <<company, wallet, ledger, payment, auditLog, cache, preload, breaker>>

\* db.update: points: company.points + coinsToAdd
GenerateCoinWrite(r) ==
  /\ req[r].pc = "coin"
  /\ company' = [company EXCEPT ![req[r].target].points = req[r].sBal + req[r].amount]
  /\ req' = Finish(r, "ok")
  /\ UNCHANGED <<wallet, ledger, payment, auditLog, cache, budget, preload, breaker>>

NextManage ==
  \/ \E r \in Reqs :
       /\ CanIssue(r)
       /\ \E c \in KnownIds, role \in Roles, name \in Usernames :
            CreateUserStart(r, c, role, name)
  \/ \E r \in Reqs : CreateUserInsert(r)
  \/ \E r \in Reqs :
       /\ CanIssue(r)
       /\ \E actor \in KnownIds, id \in AnyIds, field \in BodyFields :
            \E v \in BodyValues(field) : UpdateUserStart(r, actor, id, field, v)
  \/ \E r \in Reqs :
       /\ CanIssue(r)
       /\ \E actor \in KnownIds, id \in AnyIds, field \in BodyFields :
            \E v \in BodyValues(field) : LegacyUpdateUserStart(r, actor, id, field, v)
  \/ \E r \in Reqs :
       /\ CanIssue(r)
       /\ \E actor \in KnownIds, field \in BodyFields :
            \E v \in BodyValues(field) : UpdateUserProfileStart(r, actor, field, v)
  \/ \E r \in Reqs : UpdateWrite(r)
  \/ \E r \in Reqs :
       /\ CanIssue(r)
       /\ \E actor \in KnownIds, id \in AnyIds, status \in Statuses :
            ToggleUserStatusStart(r, actor, id, status)
  \/ \E r \in Reqs : ToggleWrite(r)
  \/ \E r \in Reqs :
       /\ CanIssue(r)
       /\ \E actor \in KnownIds, id \in AnyIds : DeletedUserStart(r, actor, id)
  \/ \E r \in Reqs : DeleteWrite(r)
  \/ \E r \in Reqs :
       /\ CanIssue(r)
       /\ \E actor \in KnownIds, name \in CoinNames, amt \in {0, 1} :
            GenerateCoinStart(r, actor, name, amt)
  \/ \E r \in Reqs : GenerateCoinWrite(r)
  \/ \E r \in Reqs : StoreError(r)

SpecManage == InitManage /\ [][NextManage]_vars

\* two account requests of one run, so that the second may come from the
\* account the first one changed
InitSession == InitStore(ManageTree, 0) /\ budget = 2

SpecSession == InitSession /\ [][NextManage]_vars

\* ---------------------------------------------- retryQuery / CircuitBreaker
\* config.database.maxRetries (DB_MAX_RETRIES || "3")
maxRetries == 3

\* constructor(private threshold = 5, ...)
threshold == 5

\* outcomes of one run of the wrapped query: it resolves, it throws an error
\* executeQuery classifies retriable, or it throws any other error
Outcomes == {"ok", "transient", "business"}

ShouldRetryAny(err, attempt) == attempt <= maxRetries

\* pRetry after a failed attempt: an AbortError stops the operation, any
\* other error is retried while retries are left
ShouldRetry(err, attempt) == err # "abort" /\ attempt <= maxRetries

\* executeQuery's catch: an error that is not retriable is wrapped in an
\* AbortError
Thrown(out) == IF out = "transient" THEN "error" ELSE "abort"

\* CircuitBreaker.onFailure, run by the catch of execute for every error
OnFailure(b, out) ==
  [b EXCEPT !.failures = @ + 1,
            !.elapsed = FALSE,
            !.streak = IF out = "transient" THEN @ + 1 ELSE @,
            !.state = IF b.failures + 1 >= threshold THEN "OPEN" ELSE @]

\* CircuitBreaker.onSuccess
OnSuccess(b) == [b EXCEPT !.failures = 0, !.state = "CLOSED", !.streak = 0]

InitWrapper == InitStore(SmallTree, 0) /\ budget = MaxCalls

\* retryQuery(fn, {skipCircuitBreaker}) is called
RetryQueryStart(r, skip) ==
  /\ CanIssue(r)
  /\ budget' = budget - 1
  /\ req' = [req EXCEPT ![r] = [IdleReq EXCEPT !.kind = "retryQuery", !.pc = "try",
                                               !.attempt = 1, !.skip = skip]]
  /\ UNCHANGED <<company, wallet, ledger, payment, auditLog, cache, preload, breaker>>

\* the failed attempt is handed to pRetry
AfterFailure(r, err, st) ==
  IF ShouldRetry(err, req[r].attempt)
    THEN [req EXCEPT ![r].pc = "try", ![r].attempt = @ + 1]
    ELSE [req EXCEPT ![r].pc = "done", ![r].status = st]

\* pRetry runs one attempt: circuitBreaker.execute(executeQuery), or
\* executeQuery itself under skipCircuitBreaker, up to the await of fn()
Execute(r) ==
  /\ req[r].pc = "try"
  /\ IF ~req[r].skip /\ breaker.state = "OPEN" /\ ~breaker.elapsed
       THEN \* throw new Error("Circuit breaker is OPEN")
            /\ req' = AfterFailure(r, "error", "open")
            /\ UNCHANGED breaker
       ELSE /\ req' = [req EXCEPT ![r].pc = "run", ![r].execs = @ + 1]
            /\ breaker' = IF ~req[r].skip /\ breaker.state = "OPEN"
                            THEN [breaker EXCEPT !.state = "HALF_OPEN"]
                            ELSE breaker
  /\ UNCHANGED <<company, wallet, ledger, payment, auditLog, cache, budget, preload>>

\* fn() settles: executeQuery's try / catch, then execute's, then pRetry
QuerySettles(r, out) ==
  /\ req[r].pc = "run"
  /\ out \in Outcomes
  /\ IF out = "ok"
       THEN /\ req' = [req EXCEPT ![r].pc = "done", ![r].status = "ok"]
            /\ breaker' = IF req[r].skip THEN breaker ELSE OnSuccess(breaker)
       ELSE /\ req[r].skip \/ breaker.failures < MaxFailures
            /\ req' = [AfterFailure(r, Thrown(out), out) EXCEPT ![r].lastErr = out]
            /\ breaker' = IF req[r].skip THEN breaker ELSE OnFailure(breaker, out)
  /\ UNCHANGED <<company, wallet, ledger, payment, auditLog, cache, budget, preload>>

\* the caller has its answer
CallReturns(r) ==
  /\ req[r].pc = "done"
  /\ req' = [req EXCEPT ![r] = IdleReq]
  /\ UNCHANGED <<company, wallet, ledger, payment, auditLog, cache, budget, preload, breaker>>

\* the breaker's timeout passes with no further failure
TimeoutPasses ==
  /\ breaker.state = "OPEN"
  /\ ~breaker.elapsed
  /\ breaker' = [breaker EXCEPT !.elapsed = TRUE]
  /\ UNCHANGED <<company, wallet, ledger, payment, auditLog, cache, req, budget, preload>>

NextWrapper ==
  \/ \E r \in Reqs :
       /\ CanIssue(r)
       /\ \E skip \in BOOLEAN : RetryQueryStart(r, skip)
  \/ \E r \in Reqs : Execute(r)
  \/ \E r \in Reqs, out \in Outcomes : QuerySettles(r, out)
  \/ \E r \in Reqs : CallReturns(r)
  \/ TimeoutPasses

SpecWrapper == InitWrapper /\ [][NextWrapper]_vars

\* ------------------------------------------------- the policy functions alone
\* every forest over MaxNodes accounts: parentId is null (0) or another
\* account, and every parent chain ends at a root
Nodes == 1..MaxNodes

RECURSIVE ReachesRoot(_, _, _)
ReachesRoot(p, x, n) ==
  IF x = NoParent THEN TRUE
  ELSE IF n = 0 THEN FALSE
  ELSE ReachesRoot(p, p[x], n - 1)

Forests ==
  {p \in [Nodes -> {NoParent} \cup Nodes] : \A x \in Nodes : ReachesRoot(p, x, MaxNodes)}

RECURSIVE DepthOf(_, _)
DepthOf(p, x) == IF p[x] = NoParent THEN 0 ELSE 1 + DepthOf(p, p[x])

\* createUser gives a child a role below its creator's: roots are ADMIN, an
\* account at depth d is d levels below
RoleAtDepth(d) == CHOOSE role \in Roles : roleHierarchy[role] = 5 - d

ForestRows(p) ==
  [x \in Nodes |-> Row(RoleAtDepth(DepthOf(p, x)), p[x], "u")]

InitPolicy ==
  /\ \E p \in Forests : company = ForestRows(p)
  /\ preload = 0
  /\ wallet = Empty
  /\ ledger = << >>
  /\ payment = << >>
  /\ auditLog = << >>
  /\ cache = Empty
  /\ req = [r \in Reqs |-> IdleReq]
  /\ breaker = ClosedBreaker
  /\ budget = 1

Answer(b) == IF b THEN "true" ELSE "false"

\* one call of isInMyHierarchy(myId, targetId)
IsInMyHierarchyCall(r, myId, targetId) ==
  /\ CanIssue(r)
  /\ myId \in DOMAIN company
  /\ budget' = budget - 1
  /\ req' = [req EXCEPT ![r] =
               [@ EXCEPT !.kind = "isInMyHierarchy", !.actor = myId,
                         !.target = targetId, !.pc = "done",
                         !.status = Answer(isInMyHierarchy(myId, targetId))]]
  /\ UNCHANGED <<company, wallet, ledger, payment, auditLog, cache, preload, breaker>>

\* one call of canAssign(senderRole, receiverRole)
CanAssignCall(r, senderRole, receiverRole) ==
  /\ CanIssue(r)
  /\ budget' = budget - 1
  /\ req' = [req EXCEPT ![r] =
               [@ EXCEPT !.kind = "canAssign", !.senderRole = senderRole,
                         !.role = receiverRole, !.pc = "done",
                         !.status = Answer(canAssign(senderRole, receiverRole))]]
  /\ UNCHANGED <<company, wallet, ledger, payment, auditLog, cache, preload, breaker>>

NextPolicy ==
  \/ \E r \in Reqs :
       /\ CanIssue(r)
       /\ \E myId \in KnownIds, targetId \in AnyIds :
            IsInMyHierarchyCall(r, myId, targetId)
  \/ \E r \in Reqs :
       /\ CanIssue(r)
       /\ \E senderRole \in Roles, receiverRole \in Roles :
            CanAssignCall(r, senderRole, receiverRole)

SpecPolicy == InitPolicy /\ [][NextPolicy]_vars

\* ===================================================================== claims
Issued(r) == req[r].pc # "idle"

Done(r) == req[r].pc = "done"

Ok(r) == req[r].status = "ok"

IsTransfer(r) == req[r].kind = "transfer"

IsLoad(r) == req[r].kind = "load"

\* no request but those of R was ever issued
Only(R) == \A q \in Reqs \ R : ~Issued(q)

\* every issued request carries a positive amount and no transfer names its
\* own sender as the target
Plain ==
  \A r \in Reqs :
    Issued(r) => /\ req[r].amount > 0
                 /\ (IsTransfer(r) => req[r].actor # req[r].target)

\* balance of an account before the first request
InitBal(a) == IF a = 1 THEN preload ELSE 0

Signed(row) == IF row.type = "RECHARGE" THEN row.amount ELSE 0 - row.amount

RECURSIVE LedgerSumUpTo(_, _)
LedgerSumUpTo(a, n) ==
  IF n = 0 THEN 0
  ELSE LedgerSumUpTo(a, n - 1)
       + (IF ledger[n].companyId = a THEN Signed(ledger[n]) ELSE 0)

LedgerSum(a) == LedgerSumUpTo(a, Len(ledger))

RECURSIVE WalletTotalOf(_)
WalletTotalOf(S) ==
  IF S = {} THEN 0
  ELSE LET a == CHOOSE x \in S : TRUE IN wallet[a] + WalletTotalOf(S \ {a})

WalletTotal == WalletTotalOf(DOMAIN wallet)

Credit(r, a) == IF Ok(r) /\ req[r].target = a THEN req[r].amount ELSE 0

Debit(r, a) ==
  IF Ok(r) /\ IsTransfer(r) /\ req[r].actor = a THEN req[r].amount ELSE 0

RECURSIVE NetOver(_, _)
NetOver(R, a) ==
  IF R = {} THEN 0
  ELSE LET r == CHOOSE x \in R : TRUE
       IN Credit(r, a) - Debit(r, a) + NetOver(R \ {r}, a)

CountRows(type) == Cardinality({i \in 1..Len(ledger) : ledger[i].type = type})

OkTransfers == {r \in Reqs : Ok(r) /\ IsTransfer(r)}

\* the tables are those of the initial state of Spec
StoreUntouched ==
  /\ company = InitCompany(SmallTree, preload)
  /\ wallet = InitWallet(preload)
  /\ ledger = InitLedger(preload)
  /\ payment = InitPayment(preload)
  /\ auditLog = InitAuditLog(preload)

\* C1: two transfer(A, B, x) requests against a sender wallet that holds
\* exactly x, and no other request: under every interleaving exactly one
\* succeeds, the other is rejected for insufficient balance, A ends at 0
\* and B is credited x once.
C1_ExactlyOneOfTwoSucceeds ==
  \A r1, r2 \in Reqs :
    ( /\ r1 < r2
      /\ Only({r1, r2})
      /\ IsTransfer(r1) /\ IsTransfer(r2)
      /\ req[r1].actor = 1 /\ req[r2].actor = 1
      /\ req[r1].target = req[r2].target /\ req[r1].target # 1
      /\ preload > 0
      /\ req[r1].amount = preload /\ req[r2].amount = preload
      /\ Done(r1) /\ Done(r2)
      /\ req[r1].status \in {"ok", "insufficient"}
      /\ req[r2].status \in {"ok", "insufficient"} )
    => /\ {req[r1].status, req[r2].status} = {"ok", "insufficient"}
       /\ wallet[1] = 0
       /\ wallet[req[r1].target] = preload

\* C2: no wallet balance is negative, and no transfer is accepted whose
\* amount exceeds the balance stored for its sender when it takes effect.
C2_NoOverdraft ==
  Plain =>
    /\ \A a \in DOMAIN wallet : wallet[a] >= 0
    /\ \A r \in Reqs : (IsTransfer(r) /\ Ok(r)) => req[r].amount <= req[r].sDb

\* C3: for every account that has a wallet, Account.points equals
\* Wallet.balance.
C3_PointsEqualBalance ==
  Plain => \A a \in DOMAIN wallet : company[a].points = wallet[a]

\* C4: for every wallet, the balance equals the sum of its ledger amounts
\* taken with sign (RECHARGE positive, WITHDRAW negative).
C4_LedgerReplay ==
  Plain => \A a \in DOMAIN wallet : wallet[a] = LedgerSum(a)

\* C5: every successful transfer leaves one WITHDRAW and one RECHARGE row
\* and moves the same amount out of the sender as into the target: while
\* only transfers run, the sum of all wallet balances stays what loadSelf
\* put in before them.
C5_Conservation ==
  (Plain /\ \A r \in Reqs : ~IsLoad(r)) =>
    /\ CountRows("WITHDRAW") = Cardinality(OkTransfers)
    /\ CountRows("RECHARGE") =
         Cardinality(OkTransfers) + (IF preload > 0 THEN 1 ELSE 0)
    /\ WalletTotal = preload

\* C6: when all the issued operations have succeeded, every wallet holds its
\* initial balance plus every credit and minus every debit of them.
C6_NoLostUpdate ==
  ( /\ Plain
    /\ \E r \in Reqs : Issued(r)
    /\ \A r \in Reqs : Issued(r) => (Done(r) /\ Ok(r)) )
  => \A a \in DOMAIN wallet : wallet[a] = InitBal(a) + NetOver(Reqs, a)

\* C7: a loadSelf or transfer that fails with a store error after it was
\* accepted leaves wallets, points, ledger, payments and audit log exactly
\* as they were before the call.
C7_AllOrNothing ==
  \A r \in Reqs :
    ( /\ Only({r})
      /\ Plain
      /\ IsTransfer(r) \/ IsLoad(r)
      /\ Done(r)
      /\ req[r].status = "error" )
    => StoreUntouched

\* C8: a transfer whose amount exceeds the sender's balance is rejected with
\* InsufficientBalance and creates no row and changes no balance, also when
\* sender or target has no wallet yet.
C8_InsufficientNoRows ==
  \A r \in Reqs :
    ( /\ Only({r})
      /\ IsTransfer(r)
      /\ req[r].actor # req[r].target
      /\ Done(r)
      /\ req[r].status \in {"ok", "insufficient"}
      /\ req[r].amount > InitBal(req[r].actor) )
    => /\ req[r].status = "insufficient"
       /\ StoreUntouched

LevelOf(id) == roleHierarchy[company[id].role]

\* C9: a transfer of a non-ADMIN sender succeeds only if the target is in
\* the sender's subtree and exactly one role level below the sender; a
\* transfer of an ADMIN to an account of a non-ADMIN role is never refused
\* by the role or hierarchy checks.
C9_TransferAuthorization ==
  /\ \A r \in Reqs :
       (IsTransfer(r) /\ Ok(r) /\ company[req[r].actor].role # "ADMIN")
       => /\ InSubtree(req[r].actor, req[r].target)
          /\ LevelOf(req[r].target) = LevelOf(req[r].actor) - 1
  /\ \A r \in Reqs :
       ( /\ IsTransfer(r)
         /\ company[req[r].actor].role = "ADMIN"
         /\ req[r].target \in DOMAIN company
         /\ company[req[r].target].role # "ADMIN" )
       => req[r].status \notin {"forbidden", "forbidden_role"}

\* a non-ADMIN sender paid an account one level below it in its subtree
C9_Witness ==
  \E r \in Reqs :
    /\ IsTransfer(r) /\ Ok(r)
    /\ company[req[r].actor].role # "ADMIN"
    /\ InSubtree(req[r].actor, req[r].target)
    /\ LevelOf(req[r].target) = LevelOf(req[r].actor) - 1

IsCreate(r) == req[r].kind \in {"create", "create_legacy"}

\* C10: with valid, non-conflicting fields createAccount succeeds if and
\* only if the level of the new role is below the level of the creator's.
C10_CreateIffLower ==
  \A r \in Reqs :
    ( /\ IsCreate(r)
      /\ Done(r)
      /\ req[r].status \notin {"conflict", "error"}
      /\ Ok(r) \/ ~UsernameTaken(req[r].username) )
    => ( Ok(r) <=> roleHierarchy[req[r].role] < LevelOf(req[r].actor) )

IsHierarchyCall(r) == req[r].kind = "isInMyHierarchy"

\* target is a proper ancestor of root
ProperAncestor(root, x) == x # root /\ InSubtree(x, root)

\* C11: on every forest, isDescendant(root, target) answers true exactly
\* when target is root or is reached from root by parent-to-child edges; it
\* answers false for a proper ancestor of root and for an account of another
\* subtree; the walk nests no deeper than the number of accounts.
C11_DescendantExact ==
  \A r \in Reqs :
    IsHierarchyCall(r) =>
      /\ (req[r].status = "true") <=> InSubtree(req[r].actor, req[r].target)
      /\ ProperAncestor(req[r].actor, req[r].target) => req[r].status = "false"
      /\ isInMyHierarchyDepth(company, req[r].actor, req[r].target)
           <= Cardinality(DOMAIN company)

\* the walk answered true for an account two or more edges below the root
C11_Witness ==
  \E r \in Reqs :
    /\ IsHierarchyCall(r)
    /\ req[r].status = "true"
    /\ req[r].target # req[r].actor
    /\ company[req[r].target].parentId # req[r].actor

AssignPairs ==
  {<<"ADMIN", "DISTRIBUTOR">>, <<"ADMIN", "SUB_DISTRIBUTOR">>,
   <<"ADMIN", "STORE">>, <<"ADMIN", "PLAYER">>,
   <<"DISTRIBUTOR", "SUB_DISTRIBUTOR">>, <<"SUB_DISTRIBUTOR", "STORE">>,
   <<"STORE", "PLAYER">>}

IsAssignCall(r) == req[r].kind = "canAssign"

\* C12: canAssign(sender, receiver) is true exactly for the seven pairs of
\* AssignPairs; when it is true the receiver's level is below the sender's,
\* and some pair with a lower receiver level is refused.
C12_CanAssignTable ==
  \A r \in Reqs :
    IsAssignCall(r) =>
      /\ (req[r].status = "true")
           <=> <<req[r].senderRole, req[r].role>> \in AssignPairs
      /\ req[r].status = "true"
           => roleHierarchy[req[r].role] < roleHierarchy[req[r].senderRole]
      /\ \E s, t \in Roles :
           roleHierarchy[t] < roleHierarchy[s] /\ ~canAssign(s, t)

\* canAssign refused a pair whose receiver is at a lower level: the converse
\* of the level implication fails
C12_Witness ==
  \E r \in Reqs :
    /\ IsAssignCall(r)
    /\ req[r].status = "false"
    /\ roleHierarchy[req[r].role] < roleHierarchy[req[r].senderRole]

\* C13: a transfer or loadSelf whose amount is zero or negative, and that the
\* role, lookup and hierarchy checks let through, is rejected for its amount
\* and leaves wallets, points, ledger and payments as they were.
C13_NonPositiveRejected ==
  \A r \in Reqs :
    ( /\ Only({r})
      /\ IsTransfer(r) \/ IsLoad(r)
      /\ req[r].actor # req[r].target \/ IsLoad(r)
      /\ Done(r)
      /\ req[r].amount <= 0
      /\ req[r].status \notin {"forbidden_role", "not_found", "forbidden", "error"} )
    => /\ req[r].status \in {"bad_request", "invalid_amount"}
       /\ StoreUntouched

\* the step in which the transaction of the loadSelf request r commits
LoadCommits(r) == req[r].pc = "ltx" /\ req'[r].status = "ok"

\* C14: a loadSelf of an ADMIN that succeeds writes, in the step that
\* commits it, the balance its handler read from the store plus amount to the
\* admin's wallet and points, and appends exactly one PAID payment of merchant
\* ADMIN and one RECHARGE row whose snapshot is that balance, both of amount;
\* run alone it leaves the wallet at the stored balance plus amount with
\* amount > 0; a caller that is no ADMIN is refused and changes no table.
C14_LoadSelf ==
  /\ [](\A r \in Reqs :
          /\ (IsLoad(r) /\ Ok(r)) =>
               /\ company[req[r].actor].role = "ADMIN"
               /\ req[r].amount > 0
               /\ Only({r}) => wallet[req[r].actor] = req[r].sDb + req[r].amount
          /\ (IsLoad(r) /\ company[req[r].actor].role # "ADMIN") =>
               req[r].status = "forbidden_role")
  /\ [][\A r \in Reqs :
          /\ LoadCommits(r) =>
               LET a == req[r].actor
                   new == req[r].sBal + req[r].amount
               IN /\ wallet' = [wallet EXCEPT ![a] = new]
                  /\ company' = [company EXCEPT ![a].points = new]
                  /\ payment' = Append(payment, PaymentRow(a, req[r].amount))
                  /\ ledger' = Append(ledger,
                       [companyId |-> a, type |-> "RECHARGE",
                        amount |-> req[r].amount, balance |-> new])
          /\ (~IsLoad(r) /\ IsLoad(r)' /\ req'[r].status = "forbidden_role") =>
               UNCHANGED <<company, wallet, ledger, payment, auditLog>>]_vars

\* an ADMIN whose wallet held coins loaded more
C14_Witness ==
  \E r \in Reqs :
    /\ IsLoad(r) /\ Ok(r)
    /\ req[r].sDb > 0
    /\ wallet[req[r].actor] = req[r].sDb + req[r].amount

\* C15: in a sequential execution of requests with positive amounts and no
\* self-transfer, every successful transfer has left a WITHDRAW row whose snapshot is the
\* sender's stored balance before the commit minus amount, followed by a
\* RECHARGE row whose snapshot is the target's stored balance plus amount.
C15_SequentialTransfer ==
  \A r \in Reqs :
    (Plain /\ IsTransfer(r) /\ Ok(r))
    => \E i \in 1..(Len(ledger) - 1) :
         /\ ledger[i] = [companyId |-> req[r].actor, type |-> "WITHDRAW",
                         amount |-> req[r].amount,
                         balance |-> req[r].sDb - req[r].amount]
         /\ ledger[i + 1] = [companyId |-> req[r].target, type |-> "RECHARGE",
                             amount |-> req[r].amount,
                             balance |-> req[r].tDb + req[r].amount]

\* the parent chain of x ends at a root within as many steps as there are
\* accounts
RECURSIVE ChainEnds(_, _)
ChainEnds(x, n) ==
  IF x = NoParent THEN TRUE
  ELSE IF n = 0 \/ x \notin DOMAIN company THEN FALSE
  ELSE ChainEnds(company[x].parentId, n - 1)

\* C16: under create, update, profile update, toggleStatus and softDelete
\* the parent pointers stay acyclic, every root is an ADMIN, and no account
\* that existed at the start has another parentId than at the start.
C16_ForestStable ==
  /\ \A x \in DOMAIN company : ChainEnds(x, Cardinality(DOMAIN company))
  /\ \A x \in DOMAIN company :
       company[x].parentId = NoParent => company[x].role = "ADMIN"
  /\ \A x \in DOMAIN ManageTree : company[x].parentId = ManageTree[x].parentId

\* C17: operations other than loadSelf and transfer leave the points of
\* every account and every wallet balance as they were: here no loadSelf and
\* no transfer runs, all points stay 0 and no wallet appears.
C17_PointsFrame ==
  /\ \A x \in DOMAIN company : company[x].points = 0
  /\ wallet = Empty

IsToggleOrDelete(r) == req[r].kind \in {"toggle", "delete"}

\* C18: a toggleStatus or softDelete whose target the handler read as an
\* ADMIN never reaches its write and never succeeds, whoever the actor is;
\* when it is answered the answer is a refusal; no step of such a request
\* changes an account.
C18_AdminProtected ==
  /\ [](\A r \in Reqs :
          (IsToggleOrDelete(r) /\ req[r].role = "ADMIN") =>
            /\ req[r].pc \notin {"tog", "del"}
            /\ req[r].status # "ok"
            /\ (Done(r) /\ req[r].status # "error")
                 => req[r].status \in {"forbidden", "forbidden_role"})
  /\ [][\A r \in Reqs :
          (IsToggleOrDelete(r)' /\ req'[r] # req[r] /\ req'[r].role = "ADMIN")
            => company' = company]_vars

\* an ADMIN asked to deactivate or delete another ADMIN and was refused
C18_Witness ==
  \E r \in Reqs :
    /\ IsToggleOrDelete(r)
    /\ req[r].role = "ADMIN"
    /\ company[req[r].actor].role = "ADMIN"
    /\ req[r].actor # req[r].target
    /\ req[r].status = "forbidden"

ManageOps == {"update", "update_legacy", "toggle", "delete"}

C20_SelfUpdateRefused ==
  \A r \in Reqs :
    ( /\ Only({r})
      /\ req[r].kind \in {"update", "update_legacy"}
      /\ req[r].actor = req[r].target
      /\ Done(r) )
    => /\ ~Ok(r)
       /\ company[req[r].actor] = ManageTree[req[r].actor]

OkLoads == {r \in Reqs : Ok(r) /\ IsLoad(r)}

\* C21: the audit log holds one entry for every committed loadSelf and every
\* committed transfer: the one of the load that preceded the requests, and
\* one for each request that succeeded.
C21_AuditPerMutation ==
  Plain =>
    Len(auditLog) = (IF preload > 0 THEN 1 ELSE 0)
                    + Cardinality(OkLoads) + Cardinality(OkTransfers)

\* C22: in a sequential execution the balance a transfer holds for its
\* sender after reading it through the store wrapper is the stored balance,
\* and so is the one it holds for its target when it checks and commits.
C22_ReadsPostWrite ==
  Plain =>
    \A r \in Reqs :
      IsTransfer(r) =>
        /\ req[r].pc \in {"tw", "twc", "chk", "tx"}
             => req[r].sBal = wallet[req[r].actor]
        /\ req[r].pc \in {"chk", "tx"}
             => req[r].tBal = wallet[req[r].target]

\* the store before the first request of SpecPair
StartWallet(a) ==
  IF preload > 0 /\ a \in DOMAIN FundedStore.wallet THEN FundedStore.wallet[a] ELSE 0

StartPoints(a) == IF preload > 0 THEN FundedStore.company[a].points ELSE 0

StartLedger == IF preload > 0 THEN FundedStore.ledger ELSE << >>

\* the ledger rows of transfer r run on the store before the first request
RowsAlone(r) ==
  << [companyId |-> req[r].actor, type |-> "WITHDRAW", amount |-> req[r].amount,
      balance |-> StartWallet(req[r].actor) - req[r].amount],
     [companyId |-> req[r].target, type |-> "RECHARGE", amount |-> req[r].amount,
      balance |-> StartWallet(req[r].target) + req[r].amount] >>

Disjoint(r1, r2) ==
  {req[r1].actor, req[r1].target} \cap {req[r2].actor, req[r2].target} = {}

\* C23: two successful transfers of positive amounts over disjoint pairs of
\* accounts, however interleaved, leave every wallet and the points of every
\* account at the start value plus credits minus debits, and the ledger
\* extended by the rows of the two transfers run one after the other, in one
\* of the two orders.
C23_DisjointIndependent ==
  \A r1, r2 \in Reqs :
    ( /\ r1 < r2
      /\ Plain
      /\ IsTransfer(r1) /\ IsTransfer(r2)
      /\ Ok(r1) /\ Ok(r2)
      /\ Disjoint(r1, r2) )
    => /\ \A a \in DOMAIN wallet :
            wallet[a] = StartWallet(a) + NetOver({r1, r2}, a)
       /\ \A a \in DOMAIN company :
            company[a].points = StartPoints(a) + NetOver({r1, r2}, a)
       /\ \/ ledger = StartLedger \o RowsAlone(r1) \o RowsAlone(r2)
          \/ ledger = StartLedger \o RowsAlone(r2) \o RowsAlone(r1)

\* two transfers over disjoint pairs both succeeded
C23_Witness ==
  \E r1, r2 \in Reqs :
    /\ r1 < r2
    /\ Plain
    /\ IsTransfer(r1) /\ IsTransfer(r2)
    /\ Ok(r1) /\ Ok(r2)
    /\ Disjoint(r1, r2)

IsCall(r) == req[r].kind = "retryQuery"

\* C24: a call of retryQuery runs the wrapped query at most 1 + maxRetries
\* times; it runs it again only after a run that threw a retriable error, and
\* a run that throws any other error ends the call in the same step.
C24_RetryOnlyTransient ==
  /\ [](\A r \in Reqs : req[r].execs <= maxRetries + 1)
  /\ [][\A r \in Reqs :
          /\ (req[r].execs >= 1 /\ req'[r].execs > req[r].execs)
               => req[r].lastErr = "transient"
          /\ (req[r].pc = "run" /\ req'[r].lastErr = "business")
               => /\ req'[r].pc = "done"
                  /\ req'[r].status = "business"
                  /\ req'[r].execs = req[r].execs]_vars

\* a call ran the query again after a retriable error, and a call ended on
\* another error
C24_Witness ==
  /\ \E r \in Reqs : IsCall(r) /\ req[r].pc = "run" /\ req[r].execs = maxRetries + 1
  /\ \E r \in Reqs : IsCall(r) /\ req[r].pc = "done" /\ req[r].status = "business"

\* C30: the breaker is OPEN only after threshold failures that were all
\* retriable errors of the wrapped query, with no success in between.
C30_OpenAfterTransientStreak ==
  breaker.state = "OPEN" => breaker.streak >= threshold

\* C25: no monetary request fails on the creation of a wallet: a request that
\* found no wallet for an account never ends on the unique-index error of a
\* second insert for that account.
C25_NoWalletRaceFailure ==
  Plain =>
    \A r \in Reqs :
      (IsTransfer(r) \/ IsLoad(r)) => ~(Done(r) /\ req[r].lastErr = "P2002")

\* C26: of two createUser requests with the same username, when one inserted
\* the account the other is answered Conflict.
C26_DuplicateGetsConflict ==
  \A r1, r2 \in Reqs :
    ( /\ r1 # r2
      /\ IsCreate(r1) /\ IsCreate(r2)
      /\ req[r1].username = req[r2].username
      /\ Ok(r1) /\ Done(r2)
      /\ req[r2].status # "ok"
      /\ req[r2].lastErr = "P2002" )
    => req[r2].status = "conflict"

\* C27: a successful transfer of a positive amount whose target is the sender
\* itself leaves the account's wallet no higher than the store held it when
\* the transfer committed.
C27_SelfTransferNoGain ==
  \A r \in Reqs :
    ( /\ Only({r})
      /\ IsTransfer(r) /\ Ok(r)
      /\ req[r].actor = req[r].target
      /\ req[r].amount > 0 )
    => wallet[req[r].actor] <= req[r].sDb

\* C28: every account the store held at the start keeps the role it had.
C28_RoleImmutable ==
  \A a \in DOMAIN ManageTree : company[a].role = ManageTree[a].role

Deactivated(a) ==
  a \in DOMAIN company /\ (company[a].status = "DELETED" \/ ~company[a].isActive)

\* C29: a createUser, updateUser, toggleUserStatus or deletedUser request
\* issued by an account that is soft-deleted or inactive is not admitted to
\* its write.
C29_DeactivatedRejected ==
  [][\A r \in Reqs :
       ( /\ req[r].pc = "idle"
         /\ req'[r].pc # "idle"
         /\ req'[r].actor # req'[r].target
         /\ Deactivated(req'[r].actor) )
       => req'[r].pc \notin {"ins", "upd", "tog", "del"}]_vars

====
